---- MODULE Spec2Model ----
(***************************************************************************)
(* Model of the Ansible module onevm (src/onevm.py): reconciliation of one *)
(* OpenNebula virtual machine against a requested target state.            *)
(*                                                                         *)
(* Python values are modelled as follows.                                  *)
(*   - str            TLA+ string ('{:d}'.format(n) is ToString(n))        *)
(*   - None           the string None where the other values are strings,  *)
(*                    the empty tuple for the optional integer template_id *)
(*                    (<<>> is None, <<t>> is the integer t)               *)
(*   - list           sequence                                             *)
(*   - dict           a record when only its keys are looked up, a         *)
(*                    sequence of <<key, value>> pairs when the code       *)
(*                    iterates over its items (insertion order)            *)
(* One step of an invocation is the code between two responses of the      *)
(* control plane: it ends with the response to the remote call it issues,  *)
(* or with the return of core.                                             *)
(* The control plane is the inventory (pool) and the ids it hands out: an  *)
(* instantiate call adds a machine on hold; the effect of a vm.action call *)
(* on the inventory is not modelled (no invocation reads the inventory     *)
(* after its own action).  lxml is taken to be installed (HAS_LXML).       *)
(***************************************************************************)
EXTENDS Integers, Sequences, FiniteSets, TLC

(***************************************************************************)
(* Bounds of the model.                                                    *)
(***************************************************************************)
MaxMatches == 3
MaxNics == 2
MaxIps == 1
MaxDisks == 2

Procs == {1, 2}

None == "None"

(***************************************************************************)
(* Module constants.                                                       *)
(***************************************************************************)
STATES == {"present", "absent", "started", "stopped", "suspended", "resumed",
           "undeployed", "retrieve"}

\* mutant: the table also translates code 7
ONE_STATES_MAP_WithSeven ==
    [c \in {"0", "1", "2", "3", "4", "5", "6", "7", "8", "9", "10", "11"} |->
        CASE c = "0" -> "init"
          [] c = "1" -> "pending"
          [] c = "2" -> "hold"
          [] c = "3" -> "active"
          [] c = "4" -> "stopped"
          [] c = "5" -> "suspended"
          [] c = "6" -> "done"
          [] c = "7" -> "unknown"
          [] c = "8" -> "poweroff"
          [] c = "9" -> "undeployed"
          [] c = "10" -> "cloning"
          [] c = "11" -> "cloning_failure"]

ONE_STATES_MAP ==
    [c \in {"0", "1", "2", "3", "4", "5", "6", "8", "9", "10", "11"} |->
        CASE c = "0" -> "init"
          [] c = "1" -> "pending"
          [] c = "2" -> "hold"
          [] c = "3" -> "active"
          [] c = "4" -> "stopped"
          [] c = "5" -> "suspended"
          [] c = "6" -> "done"
          [] c = "8" -> "poweroff"
          [] c = "9" -> "undeployed"
          [] c = "10" -> "cloning"
          [] c = "11" -> "cloning_failure"]

NOT_EXISTS_ERR == "virtual machine does not exists!"

(***************************************************************************)
(* The wire state codes the control plane can report: the table's codes    *)
(* and the one code of 0..11 the table leaves out.                         *)
(***************************************************************************)
WireCodes == DOMAIN ONE_STATES_MAP \cup {"7"}

(***************************************************************************)
(* The errors a remote call can report: (status = False, stdout, errcode). *)
(***************************************************************************)
RemoteErrors == {[errcode |-> 2048, stdout |-> "[one] not authorized"]}

MutatingMethods == {"image.allocate", "template.instantiate", "vm.action"}

(***************************************************************************)
(* String helpers: str.join, str.upper, s[:-1].                            *)
(***************************************************************************)
RECURSIVE Join(_, _)
Join(sep, strs) ==
    IF strs = <<>> THEN ""
    ELSE IF Len(strs) = 1 THEN strs[1]
    ELSE strs[1] \o sep \o Join(sep, Tail(strs))

UpperChar(c) ==
    CASE c = "a" -> "A" [] c = "b" -> "B" [] c = "c" -> "C" [] c = "d" -> "D"
      [] c = "e" -> "E" [] c = "f" -> "F" [] c = "g" -> "G" [] c = "h" -> "H"
      [] c = "i" -> "I" [] c = "j" -> "J" [] c = "k" -> "K" [] c = "l" -> "L"
      [] c = "m" -> "M" [] c = "n" -> "N" [] c = "o" -> "O" [] c = "p" -> "P"
      [] c = "q" -> "Q" [] c = "r" -> "R" [] c = "s" -> "S" [] c = "t" -> "T"
      [] c = "u" -> "U" [] c = "v" -> "V" [] c = "w" -> "W" [] c = "x" -> "X"
      [] c = "y" -> "Y" [] c = "z" -> "Z" [] OTHER -> c

RECURSIVE Upper(_)
Upper(s) ==
    IF Len(s) = 0 THEN ""
    ELSE UpperChar(SubSeq(s, 1, 1)) \o Upper(SubSeq(s, 2, Len(s)))

DropLast(s) == SubSeq(s, 1, Len(s) - 1)

RECURSIVE Concat(_)
Concat(lists) == IF lists = <<>> THEN <<>> ELSE lists[1] \o Concat(Tail(lists))

Truthy(str) == str # None /\ str # ""

(***************************************************************************)
(* gen_template: the provisioning template as the list of its lines        *)
(* (template_params); the function returns them joined by a newline.       *)
(* Every block is built as in the code: the opening line, one line ending  *)
(* with a comma per field, the last character of the block's last line     *)
(* cut off, the closing line.                                              *)
(***************************************************************************)
\* mutant: the comma of the block's last line is left in place
BlockLines_KeepsComma(open, fields) == <<open>> \o fields \o <<"]">>

BlockLines(open, fields) ==
    LET block_params == <<open>> \o fields
        n == Len(block_params)
    IN  [block_params EXCEPT ![n] = DropLast(block_params[n])] \o <<"]">>

NicBlock(params, idx) ==
    LET nic_id == params.nics[idx]
        \* ips[idx], None on IndexError
        nic_ip == IF idx <= Len(params.ips) THEN params.ips[idx] ELSE None
    IN  BlockLines("NIC = [",
            <<"  NETWORK_ID = \"" \o ToString(nic_id) \o "\",">>
            \o (IF Truthy(nic_ip) THEN <<"  IP = \"" \o nic_ip \o "\",">> ELSE <<>>))

ItemLines(items) ==
    [i \in 1..Len(items) |->
        "  " \o Upper(items[i][1]) \o " = \"" \o items[i][2] \o "\","]

\* str(value) of a disk dict's value: the image id is an integer, the
\* template's image and image_uname are strings.
Str(item) == IF item[1] = "image_id" THEN ToString(item[2]) ELSE item[2]

DiskItemLines(disk) ==
    ItemLines([i \in 1..Len(disk) |-> <<disk[i][1], Str(disk[i])>>])

gen_template_lines(params) ==
    <<"CPU = \"" \o ToString(params.cpu) \o "\"",
      "VCPU = \"" \o ToString(params.vcpu) \o "\"",
      "MEMORY = \"" \o ToString(params.memory) \o "\"">>
    \o Concat([idx \in 1..Len(params.nics) |-> NicBlock(params, idx)])
    \o (IF params.graphics # <<>>
        THEN BlockLines("GRAPHICS = [", ItemLines(params.graphics))
        ELSE <<>>)
    \o (IF params.ssh_keys # <<>>
        THEN <<"CONTEXT = [",
               "  SSH_PUBLIC_KEY = \"" \o Join("\n", params.ssh_keys) \o "\"",
               "]">>
        ELSE <<>>)
    \o Concat([d \in 1..Len(params.disks) |->
                  BlockLines("DISK = [", DiskItemLines(params.disks[d]))])

gen_template(params) == Join("\n", gen_template_lines(params))

(***************************************************************************)
(* create_image: the image template; the dict literal names 'driver'       *)
(* twice, which leaves five items in the order of their first appearance.  *)
(***************************************************************************)
image_template(name, size) ==
    LET items == << <<"name", name>>, <<"persistent", "yes">>, <<"driver", "raw">>,
                    <<"size", ToString(size)>>, <<"type", "datablock">> >>
    IN  Join("\n", [i \in 1..Len(items) |-> Upper(items[i][1]) \o "=" \o items[i][2]])

(***************************************************************************)
(* int(text) of a decimal string and text.split('\n').                     *)
(***************************************************************************)
DigitVal(c) ==
    CASE c = "0" -> 0 [] c = "1" -> 1 [] c = "2" -> 2 [] c = "3" -> 3 [] c = "4" -> 4
      [] c = "5" -> 5 [] c = "6" -> 6 [] c = "7" -> 7 [] c = "8" -> 8 [] c = "9" -> 9

RECURSIVE ParseInt(_)
ParseInt(s) ==
    IF Len(s) = 1 THEN DigitVal(s)
    ELSE 10 * ParseInt(DropLast(s)) + DigitVal(SubSeq(s, Len(s), Len(s)))

RECURSIVE SplitFrom(_, _)
SplitFrom(s, start) ==
    LET end == CHOOSE i \in start..(Len(s) + 1) :
                   /\ i = Len(s) + 1 \/ SubSeq(s, i, i) = "\n"
                   /\ \A j \in start..(i - 1) : SubSeq(s, j, j) # "\n"
        piece == IF start > end - 1 THEN "" ELSE SubSeq(s, start, end - 1)
    IN  IF end > Len(s) THEN <<piece>> ELSE <<piece>> \o SplitFrom(s, end + 1)

SplitLines(s) == SplitFrom(s, 1)

(***************************************************************************)
(* xmlrpc: the three values a remote call answers with.  A successful      *)
(* answer's payload is computed by the step that issues the call.          *)
(***************************************************************************)
RemoteResponses ==
    {[status |-> TRUE, stdout |-> "", errcode |-> 0]}
    \cup {[status |-> FALSE, stdout |-> e.stdout, errcode |-> e.errcode] : e \in RemoteErrors}

\* mutant: core reports an error of the control plane as nothing to do
OneErrorResult_NotFailed(msg) == [changed |-> FALSE, msg |-> msg]

OneErrorResult(msg) == [failed |-> TRUE, msg |-> msg]

\* mutant: a failed remote call is reported as nothing to do
xmlrpc_error_Swallowed(resp) == [changed |-> FALSE]

xmlrpc_error(resp) == OneErrorResult(ToString(resp.errcode) \o ": " \o resp.stdout)

(***************************************************************************)
(* The documents template.info can answer with: the template's DISK (or    *)
(* none) and the text of CONTEXT/SSH_PUBLIC_KEY (or none).                 *)
(***************************************************************************)
TemplateDocs ==
    {[has_disk |-> TRUE, image |-> "ttylinux", image_uname |-> "oneadmin", ssh |-> None],
     [has_disk |-> TRUE, image |-> "ttylinux", image_uname |-> "oneadmin",
      ssh |-> "ssh-rsa T1\nssh-rsa T2"],
     [has_disk |-> FALSE, image |-> None, image_uname |-> None, ssh |-> None]}

(***************************************************************************)
(* State.                                                                  *)
(***************************************************************************)
VARIABLES
    pool,           \* control plane: the inventory, a list of VM entries
    next_id,        \* control plane: the ids it hands out next (vm, image)
    calls,          \* the remote calls issued so far, in order
    pc,             \* per invocation: the position in the code
    state,          \* per invocation: the requested target state
    params,         \* per invocation: module.params
    vm,             \* per invocation: the dict get_vm_info returned
    template_infos, \* create_vm: the dict get_template_infos returned
    disks,          \* create_vm: the list of disks being built
    idx,            \* create_vm: the index of the disk loop
    actions,        \* start_vm: the list of actions
    raised,         \* an exception core did not catch, or None
    result,         \* the dict core returned, as passed on by main
    exit            \* main: "fail_json" or "exit_json"

vars == <<pool, next_id, calls, pc, state, params, vm, template_infos, disks, idx,
          actions, raised, result, exit>>

(***************************************************************************)
(* Inputs.                                                                 *)
(***************************************************************************)
SeqsUpTo(S, n) == UNION {[1..k -> S] : k \in 0..n}

IpValues == {None, "10.0.0.1"}

GraphicsValues == {<<>>, << <<"type", "vnc">> >>,
                   << <<"type", "vnc">>, <<"listen", "0.0.0.0">> >>}

SshKeysValues == {<<>>, <<"ssh-rsa A">>}

TemplateIdValues == {<<>>, <<5>>}

\* argument_spec: the parameters left in module.params once core has popped
\* endpoint, user, password and state.
ParamsValues ==
    {[name |-> "web", template_id |-> t, cpu |-> 2, vcpu |-> 2, memory |-> 2048,
      graphics |-> g, nics |-> [i \in 1..n |-> i], ips |-> ips,
      disks |-> [i \in 1..d |-> 10 * i], ssh_keys |-> k] :
        t \in TemplateIdValues, g \in GraphicsValues, n \in 0..MaxNics,
        ips \in SeqsUpTo(IpValues, MaxIps), d \in 0..MaxDisks, k \in SshKeysValues}

\* The inventory (the VM elements of VM_POOL, with their NAME, ID and STATE):
\* one machine of another name, then m machines of the
\* requested name, the first of them in the state of wire code c.
Inventory(m, c) ==
    <<[Name |-> "db", Id |-> "0", State |-> "3"]>>
    \o [i \in 1..m |->
          [Name |-> "web", Id |-> ToString(i), State |-> IF i = 1 THEN c ELSE "3"]]

InventoryValues ==
    {Inventory(0, "3")} \cup {Inventory(m, c) : m \in 1..MaxMatches, c \in WireCodes}

\* What the variables of an invocation hold before it has set them.
Unset == <<>>

InitWith(invoked) ==
    /\ pool \in InventoryValues
    /\ next_id = [vm |-> Len(pool), image |-> 0]
    /\ calls = <<>>
    /\ pc = [p \in Procs |-> IF p \in invoked THEN "core" ELSE "idle"]
    /\ \E st \in STATES, pv \in ParamsValues :
          /\ state = [p \in Procs |-> st]
          /\ params = [p \in Procs |-> pv]
    /\ vm = [p \in Procs |-> Unset]
    /\ template_infos = [p \in Procs |-> Unset]
    /\ disks = [p \in Procs |-> <<>>]
    /\ idx = [p \in Procs |-> 0]
    /\ actions = [p \in Procs |-> <<>>]
    /\ raised = [p \in Procs |-> None]
    /\ result = [p \in Procs |-> Unset]
    /\ exit = [p \in Procs |-> None]

Init == InitWith({1})

(***************************************************************************)
(* The ways a step ends.                                                   *)
(***************************************************************************)
\* a remote call and its answer: on success the payload is out, on failure
\* it is the error's text
Call(p, method, args, resp, out) ==
    calls' = Append(calls, [proc |-> p, method |-> method, args |-> args,
                            status |-> resp.status,
                            stdout |-> IF resp.status THEN out ELSE resp.stdout])

\* core returns res to main
Return(p, res) ==
    /\ result' = [result EXCEPT ![p] = res]
    /\ pc' = [pc EXCEPT ![p] = "main"]
    /\ UNCHANGED raised

\* an exception other than OneError leaves core
Raise(p, exc) ==
    /\ raised' = [raised EXCEPT ![p] = exc]
    /\ pc' = [pc EXCEPT ![p] = "main"]
    /\ UNCHANGED result

Goto(p, label) ==
    /\ pc' = [pc EXCEPT ![p] = label]
    /\ UNCHANGED <<raised, result>>

(***************************************************************************)
(* core, up to the try block: the validation of the parameters.            *)
(***************************************************************************)
\* mutant: the check forgets the target state started
MissingTemplateId_PresentOnly(st, prm) ==
    st \in {"present"} /\ prm.template_id = <<>>

MissingTemplateId(st, prm) ==
    st \in {"present", "started"} /\ prm.template_id = <<>>

\* mutant: the check rejects only a list of ips longer than nics
IpsMismatch_LongerOnly(prm) == prm.ips # <<>> /\ Len(prm.ips) > Len(prm.nics)

IpsMismatch(prm) == prm.ips # <<>> /\ Len(prm.ips) # Len(prm.nics)

Core(p) ==
    /\ pc[p] = "core"
    /\ IF MissingTemplateId(state[p], params[p])
       THEN Return(p, [failed |-> TRUE, msg |-> "missing required argument: template_id"])
       ELSE IF IpsMismatch(params[p])
       THEN Return(p, [failed |-> TRUE,
                       msg |-> "when defined, 'ips' must have the size as 'nics'"])
       ELSE Goto(p, "get_vm_info")
    /\ UNCHANGED <<pool, next_id, calls, state, params, vm, template_infos, disks, idx,
                   actions, exit>>

(***************************************************************************)
(* get_vm_info, and core's dispatch on the target state.                   *)
(***************************************************************************)
\* mutant: the dispatch table sends retrieve to delete_vm
Handler_RetrieveDeletes(st) ==
    CASE st = "present" -> "create_vm"
      [] st = "absent" -> "delete_vm"
      [] st = "started" -> "start_vm"
      [] st = "stopped" -> "stop_vm"
      [] st = "suspended" -> "suspend_vm"
      [] st = "resumed" -> "resume_vm"
      [] st = "undeployed" -> "undeploy_vm"
      [] st = "retrieve" -> "delete_vm"

Handler(st) ==
    CASE st = "present" -> "create_vm"
      [] st = "absent" -> "delete_vm"
      [] st = "started" -> "start_vm"
      [] st = "stopped" -> "stop_vm"
      [] st = "suspended" -> "suspend_vm"
      [] st = "resumed" -> "resume_vm"
      [] st = "undeployed" -> "undeploy_vm"
      [] st = "retrieve" -> "retrieve_vm"

\* mutant: the path expression selects every machine of the listing
xpath_vms_Unfiltered(vm_pool, name) == vm_pool

\* /VM_POOL/VM[NAME='name']
xpath_vms(vm_pool, name) == SelectSeq(vm_pool, LAMBDA e : e.Name = name)

TooManyVms(vms) == Len(vms) > 2

GetVmInfo(p) ==
    /\ pc[p] = "get_vm_info"
    /\ \E resp \in RemoteResponses :
          /\ Call(p, "vmpool.info", <<-2, -1, -1, -1>>, resp, pool)
          /\ IF ~resp.status
             THEN Return(p, xmlrpc_error(resp)) /\ UNCHANGED vm
             ELSE LET vms == xpath_vms(pool, params[p].name) IN
                  IF TooManyVms(vms)
                  THEN /\ Return(p, OneErrorResult("Multiples VMs have the same name!"))
                       /\ UNCHANGED vm
                  ELSE IF vms # <<>> /\ vms[1].State \notin DOMAIN ONE_STATES_MAP
                  THEN Raise(p, "KeyError") /\ UNCHANGED vm
                  ELSE /\ vm' = [vm EXCEPT ![p] =
                                   IF vms # <<>>
                                   THEN [name |-> params[p].name,
                                         id |-> ParseInt(vms[1].Id),
                                         state |-> ONE_STATES_MAP[vms[1].State]]
                                   ELSE [name |-> params[p].name, id |-> -1,
                                         state |-> None]]
                       /\ Goto(p, Handler(state[p]))
    /\ UNCHANGED <<pool, next_id, state, params, template_infos, disks, idx, actions,
                   exit>>

(***************************************************************************)
(* create_vm: the entry and get_template_infos.                            *)
(***************************************************************************)
get_template_infos(doc) ==
    IF doc.ssh # None
    THEN [disk |-> << <<"image", doc.image>>, <<"image_uname", doc.image_uname>> >>,
          ssh_keys |-> SplitLines(doc.ssh)]
    ELSE [disk |-> << <<"image", doc.image>>, <<"image_uname", doc.image_uname>> >>]

CreateVm(p) ==
    /\ pc[p] = "create_vm"
    /\ IF vm[p].state # None
       THEN /\ Return(p, [changed |-> FALSE, vm_id |-> vm[p].id, actions |-> <<>>])
            /\ UNCHANGED <<calls, template_infos, disks, idx>>
       ELSE \E resp \in RemoteResponses, doc \in TemplateDocs :
               /\ Call(p, "template.info", <<params[p].template_id[1], FALSE>>, resp, doc)
               /\ IF ~resp.status
                  THEN /\ Return(p, xmlrpc_error(resp))
                       /\ UNCHANGED <<template_infos, disks, idx>>
                  ELSE IF ~doc.has_disk
                  \* xml.xpath("/VMTEMPLATE/TEMPLATE/DISK/IMAGE")[0]
                  THEN /\ Raise(p, "IndexError")
                       /\ UNCHANGED <<template_infos, disks, idx>>
                  ELSE /\ template_infos' =
                              [template_infos EXCEPT ![p] = get_template_infos(doc)]
                       /\ IF params[p].disks # <<>>
                          THEN /\ disks' = [disks EXCEPT
                                              ![p] = <<get_template_infos(doc).disk>>]
                               /\ idx' = [idx EXCEPT ![p] = 0]
                               /\ Goto(p, "create_image")
                          ELSE /\ UNCHANGED <<disks, idx>>
                               /\ Goto(p, "instantiate")
    /\ UNCHANGED <<pool, next_id, state, params, vm, actions, exit>>

(***************************************************************************)
(* create_vm: one turn of the loop over the additional disks, with         *)
(* create_image.                                                           *)
(***************************************************************************)
\* mutant: the disks are numbered from 0, by the index of the loop
DiskName_ZeroBased(name, i) == name \o "-data" \o ToString(i)

DiskName(name, i) == name \o "-data" \o ToString(i + 1)

CreateImage(p) ==
    /\ pc[p] = "create_image"
    /\ LET disk_size == params[p].disks[idx[p] + 1]
           disk_name == DiskName(params[p].name, idx[p])
       IN  \E resp \in RemoteResponses :
              /\ Call(p, "image.allocate",
                      <<image_template(disk_name, disk_size), 101>>, resp, next_id.image)
              /\ IF ~resp.status
                 THEN /\ Return(p, xmlrpc_error(resp))
                      /\ UNCHANGED <<next_id, disks, idx>>
                 ELSE /\ next_id' = [next_id EXCEPT !.image = @ + 1]
                      /\ disks' = [disks EXCEPT
                                     ![p] = Append(@, << <<"image_id", next_id.image>> >>)]
                      /\ idx' = [idx EXCEPT ![p] = @ + 1]
                      /\ IF idx[p] + 1 < Len(params[p].disks)
                         THEN Goto(p, "create_image")
                         ELSE Goto(p, "instantiate")
    /\ UNCHANGED <<pool, state, params, vm, template_infos, actions, exit>>

(***************************************************************************)
(* create_vm: the rest, from the replacement of params['disks'] to the     *)
(* return; and, when start_vm called it, start_vm up to its action.        *)
(***************************************************************************)
TemplateKeys(infos) == IF "ssh_keys" \in DOMAIN infos THEN infos.ssh_keys ELSE <<>>

CreateParams(p) ==
    [params[p] EXCEPT
        !.disks = IF params[p].disks # <<>> THEN disks[p] ELSE @,
        !.ssh_keys = @ \o TemplateKeys(template_infos[p])]

\* mutant: start_vm takes note of the new state, not of the new id
Created_KeepsId(vmref, vm_id) == [vmref EXCEPT !.state = "hold"]

\* start_vm: the MachineRef once create_vm has returned the new id
Created(vmref, vm_id) == [vmref EXCEPT !.id = vm_id, !.state = "hold"]

\* mutant: the machine made of an instantiate call does not bear the name
Instantiated_Anonymous(name, id) == [Name |-> "", Id |-> ToString(id), State |-> "2"]

\* the machine the control plane makes of an instantiate call (on hold)
Instantiated(name, id) == [Name |-> name, Id |-> ToString(id), State |-> "2"]

Instantiate(p) ==
    /\ pc[p] = "instantiate"
    /\ params' = [params EXCEPT ![p] = CreateParams(p)]
    /\ \E resp \in RemoteResponses :
          /\ Call(p, "template.instantiate",
                  <<params[p].template_id[1], vm[p].name, TRUE,
                    gen_template(CreateParams(p)), FALSE>>, resp, next_id.vm)
          /\ IF ~resp.status
             THEN /\ Return(p, xmlrpc_error(resp))
                  /\ UNCHANGED <<pool, next_id, vm, actions>>
             ELSE /\ pool' = Append(pool, Instantiated(vm[p].name, next_id.vm))
                  /\ next_id' = [next_id EXCEPT !.vm = @ + 1]
                  /\ IF state[p] = "started"
                     THEN /\ vm' = [vm EXCEPT ![p] = Created(@, next_id.vm)]
                          /\ actions' = [actions EXCEPT ![p] = Append(@, "created")]
                          /\ Goto(p, "start_vm_action")
                     ELSE /\ Return(p, [changed |-> TRUE, vm_id |-> next_id.vm,
                                        actions |-> <<"created">>])
                          /\ UNCHANGED <<vm, actions>>
    /\ UNCHANGED <<state, template_infos, disks, idx, exit>>

(***************************************************************************)
(* The handlers that issue at most one vm.action call.                     *)
(***************************************************************************)
VmAction(p, action, res) ==
    \E resp \in RemoteResponses :
        /\ Call(p, "vm.action", <<action, vm[p].id>>, resp, "")
        /\ IF resp.status THEN Return(p, res) ELSE Return(p, xmlrpc_error(resp))

NoAction(p) == [changed |-> FALSE, vm_id |-> vm[p].id, actions |-> <<>>]

\* mutant: a handler takes the absent machine for nothing to do
NotExists_NoOp == [changed |-> FALSE]

NotExists == [failed |-> TRUE, msg |-> NOT_EXISTS_ERR]

DeleteVm(p) ==
    /\ pc[p] = "delete_vm"
    /\ IF vm[p].state = None
       THEN Return(p, [changed |-> FALSE]) /\ UNCHANGED calls
       ELSE VmAction(p, "terminate",
                     [changed |-> TRUE, vm_id |-> -1, actions |-> <<"terminated">>])
    /\ UNCHANGED <<pool, next_id, state, params, vm, template_infos, disks, idx,
                   actions, exit>>

StartVm(p) ==
    /\ pc[p] = "start_vm"
    /\ IF vm[p].state = "active"
       THEN Return(p, NoAction(p)) /\ UNCHANGED actions
       ELSE /\ actions' = [actions EXCEPT ![p] = <<>>]
            /\ IF vm[p].state = None
               THEN Goto(p, "create_vm")
               ELSE Goto(p, "start_vm_action")
    /\ UNCHANGED <<pool, next_id, calls, state, params, vm, template_infos, disks, idx,
                   exit>>

\* mutant: start_vm releases a stopped machine as it does one on hold
StartAction_ReleaseStopped(vm_state) ==
    IF vm_state \in {"hold", "stopped"} THEN "release" ELSE "resume"

\* mutant: start_vm resumes a machine on hold too
StartAction_AlwaysResume(vm_state) == "resume"

StartAction(vm_state) == IF vm_state = "hold" THEN "release" ELSE "resume"

StartVmAction(p) ==
    /\ pc[p] = "start_vm_action"
    /\ VmAction(p, StartAction(vm[p].state),
                [changed |-> TRUE, vm_id |-> vm[p].id,
                 actions |-> Append(actions[p],
                                    IF vm[p].state = "hold" THEN "released"
                                    ELSE "started")])
    /\ UNCHANGED <<pool, next_id, state, params, vm, template_infos, disks, idx,
                   actions, exit>>

StopVm(p) ==
    /\ pc[p] = "stop_vm"
    /\ IF vm[p].state = None
       THEN Return(p, NotExists) /\ UNCHANGED calls
       ELSE IF vm[p].state \in {"hold", "stopped"}
       THEN Return(p, NoAction(p)) /\ UNCHANGED calls
       ELSE VmAction(p, "poweroff",
                     [changed |-> TRUE, vm_id |-> vm[p].id, actions |-> <<"stopped">>])
    /\ UNCHANGED <<pool, next_id, state, params, vm, template_infos, disks, idx,
                   actions, exit>>

\* mutant: a stopped machine is suspended as an active one is
NotSuspendable_ButStopped(vm_state) == vm_state \notin {"active", "stopped"}

NotSuspendable(vm_state) == vm_state # "active"

SuspendVm(p) ==
    /\ pc[p] = "suspend_vm"
    /\ IF vm[p].state = None
       THEN Return(p, NotExists) /\ UNCHANGED calls
       ELSE IF vm[p].state = "suspended"
       THEN Return(p, NoAction(p)) /\ UNCHANGED calls
       ELSE IF NotSuspendable(vm[p].state)
       THEN /\ Return(p, [failed |-> TRUE,
                          msg |-> "only an active virtual machine can be suspended!"])
            /\ UNCHANGED calls
       ELSE VmAction(p, "suspend",
                     [changed |-> TRUE, vm_id |-> vm[p].id, actions |-> <<"suspended">>])
    /\ UNCHANGED <<pool, next_id, state, params, vm, template_infos, disks, idx,
                   actions, exit>>

\* mutant: resume_vm lets a stopped machine through
NotResumable_ButStopped(vm_state) == vm_state \notin {"suspended", "stopped"}

NotResumable(vm_state) == vm_state # "suspended"

ResumeVm(p) ==
    /\ pc[p] = "resume_vm"
    /\ IF vm[p].state = None
       THEN Return(p, NotExists) /\ UNCHANGED calls
       ELSE IF vm[p].state = "active"
       THEN Return(p, NoAction(p)) /\ UNCHANGED calls
       ELSE IF NotResumable(vm[p].state)
       THEN /\ Return(p, [failed |-> TRUE,
                          msg |-> "only a suspended virtual machine can be resumed!"])
            /\ UNCHANGED calls
       ELSE VmAction(p, "resume",
                     [changed |-> TRUE, vm_id |-> vm[p].id, actions |-> <<"resumed">>])
    /\ UNCHANGED <<pool, next_id, state, params, vm, template_infos, disks, idx,
                   actions, exit>>

\* mutant: the guard compares with the name the translator produces
AlreadyUndeployed_AsTranslated(vm_state) == vm_state = "undeployed"

AlreadyUndeployed(vm_state) == vm_state = "undeploy"

UndeployVm(p) ==
    /\ pc[p] = "undeploy_vm"
    /\ IF vm[p].state = None
       THEN Return(p, NotExists) /\ UNCHANGED calls
       ELSE IF AlreadyUndeployed(vm[p].state)
       THEN Return(p, NoAction(p)) /\ UNCHANGED calls
       ELSE VmAction(p, "undeploy",
                     [changed |-> TRUE, vm_id |-> vm[p].id, actions |-> <<"undeployed">>])
    /\ UNCHANGED <<pool, next_id, state, params, vm, template_infos, disks, idx,
                   actions, exit>>

(***************************************************************************)
(* retrieve_vm.  vm.info answers with the document of the machine of that  *)
(* id, or with an error when the inventory has none.                       *)
(***************************************************************************)
VmDocs(id) == {e \in {pool[i] : i \in 1..Len(pool)} : e.Id = ToString(id)}

Conf(doc) ==
    [uid |-> "0", gid |-> "0", uname |-> "oneadmin", gname |-> "oneadmin",
     state |-> ONE_STATES_MAP[doc.State], cpu |-> "2", vcpu |-> "2",
     memory |-> "2048", ips |-> <<>>]

RetrieveVm(p) ==
    /\ pc[p] = "retrieve_vm"
    /\ IF vm[p].state = None
       THEN Return(p, NotExists) /\ UNCHANGED calls
       ELSE \E resp \in RemoteResponses :
               /\ resp.status => VmDocs(vm[p].id) # {}
               /\ Call(p, "vm.info", <<vm[p].id>>, resp, VmDocs(vm[p].id))
               /\ IF ~resp.status
                  THEN Return(p, xmlrpc_error(resp))
                  ELSE \E doc \in VmDocs(vm[p].id) :
                          IF doc.State \notin DOMAIN ONE_STATES_MAP
                          THEN Raise(p, "KeyError")
                          ELSE Return(p, [changed |-> FALSE, vm_id |-> vm[p].id,
                                          conf |-> Conf(doc)])
    /\ UNCHANGED <<pool, next_id, state, params, vm, template_infos, disks, idx,
                   actions, exit>>

(***************************************************************************)
(* main, once core has returned or raised.                                 *)
(***************************************************************************)
Main(p) ==
    /\ pc[p] = "main"
    /\ IF raised[p] # None
       THEN /\ result' = [result EXCEPT
                            ![p] = [failed |-> TRUE, msg |-> raised[p],
                                    exception |-> "Traceback"]]
            /\ exit' = [exit EXCEPT ![p] = "fail_json"]
       ELSE /\ exit' = [exit EXCEPT
                          ![p] = IF "failed" \in DOMAIN result[p]
                                 THEN "fail_json" ELSE "exit_json"]
            /\ UNCHANGED result
    /\ pc' = [pc EXCEPT ![p] = "done"]
    /\ UNCHANGED <<pool, next_id, calls, state, params, vm, template_infos, disks, idx,
                   actions, raised>>

Next ==
    \E p \in Procs :
        \/ Core(p)
        \/ GetVmInfo(p)
        \/ CreateVm(p)
        \/ CreateImage(p)
        \/ Instantiate(p)
        \/ DeleteVm(p)
        \/ StartVm(p)
        \/ StartVmAction(p)
        \/ StopVm(p)
        \/ SuspendVm(p)
        \/ ResumeVm(p)
        \/ UndeployVm(p)
        \/ RetrieveVm(p)
        \/ Main(p)

Spec == Init /\ [][Next]_vars

(***************************************************************************)
(* Vocabulary of the properties.                                           *)
(***************************************************************************)
(***************************************************************************)
(* Two invocations at once, both with target present or started, against   *)
(* an inventory with at most one machine of the name.  Nothing orders the  *)
(* steps of one invocation with respect to the other's.                    *)
(***************************************************************************)
RaceParamsValues ==
    {pv \in ParamsValues :
        /\ pv.template_id # <<>> /\ pv.graphics = <<>> /\ pv.nics = <<>>
        /\ pv.ips = <<>> /\ pv.ssh_keys = <<>> /\ Len(pv.disks) <= 1}

InitRace ==
    /\ pool \in {Inventory(m, "2") : m \in 0..1}
    /\ next_id = [vm |-> Len(pool), image |-> 0]
    /\ calls = <<>>
    /\ pc = [p \in Procs |-> "core"]
    /\ state \in [Procs -> {"present", "started"}]
    /\ \E pv \in RaceParamsValues : params = [p \in Procs |-> pv]
    /\ vm = [p \in Procs |-> Unset]
    /\ template_infos = [p \in Procs |-> Unset]
    /\ disks = [p \in Procs |-> <<>>]
    /\ idx = [p \in Procs |-> 0]
    /\ actions = [p \in Procs |-> <<>>]
    /\ raised = [p \in Procs |-> None]
    /\ result = [p \in Procs |-> Unset]
    /\ exit = [p \in Procs |-> None]

NextRace ==
    \E p \in Procs :
        \/ Core(p)
        \/ GetVmInfo(p)
        \/ CreateVm(p)
        \/ CreateImage(p)
        \/ Instantiate(p)
        \/ StartVm(p)
        \/ StartVmAction(p)
        \/ Main(p)

SpecRace == InitRace /\ [][NextRace]_vars

(***************************************************************************)
(* Two invocations one after the other, with the same target state and the *)
(* same parameters: once the first has ended without failure, the control  *)
(* plane carries out the actions it accepted and the second begins.        *)
(***************************************************************************)
\* the wire code of the state an accepted action leaves the machine in
ActionEffect(action) ==
    CASE action = "release" -> "3"
      [] action = "resume" -> "3"
      [] action = "poweroff" -> "8"
      [] action = "suspend" -> "5"
      [] action = "undeploy" -> "9"

ApplyAction(vm_pool, action, id) ==
    IF action = "terminate"
    THEN SelectSeq(vm_pool, LAMBDA e : e.Id # ToString(id))
    ELSE [i \in 1..Len(vm_pool) |->
            IF vm_pool[i].Id = ToString(id)
            THEN [vm_pool[i] EXCEPT !.State = ActionEffect(action)]
            ELSE vm_pool[i]]

RECURSIVE ApplyActions(_, _)
ApplyActions(vm_pool, cs) ==
    IF cs = <<>> THEN vm_pool
    ELSE ApplyActions(ApplyAction(vm_pool, cs[1].args[1], cs[1].args[2]), Tail(cs))

AcceptedActions(p) ==
    SelectSeq(calls, LAMBDA c : c.proc = p /\ c.method = "vm.action" /\ c.status)

StartSecond ==
    /\ pc[1] = "done" /\ "failed" \notin DOMAIN result[1]
    /\ pc[2] = "idle"
    /\ pool' = ApplyActions(pool, AcceptedActions(1))
    /\ pc' = [pc EXCEPT ![2] = "core"]
    /\ UNCHANGED <<next_id, calls, state, params, vm, template_infos, disks, idx,
                   actions, raised, result, exit>>

SeqParamsValues ==
    {pv \in ParamsValues :
        /\ pv.graphics = <<>> /\ pv.nics = <<>> /\ pv.ips = <<>>
        /\ pv.ssh_keys = <<>> /\ Len(pv.disks) <= 1}

InitSeq ==
    /\ InitWith({1})
    /\ Len(pool) <= 2
    /\ params[1] \in SeqParamsValues

NextSeq == Next \/ StartSecond

SpecSeq == InitSeq /\ [][NextSeq]_vars

Done(p) == pc[p] = "done"

Failed(p) == "failed" \in DOMAIN result[p]

CallsOf(p) == SelectSeq(calls, LAMBDA c : c.proc = p)

MutatingCalls(p) ==
    SelectSeq(calls, LAMBDA c : c.proc = p /\ c.method \in MutatingMethods)

\* the inventory listing answered the lookup of invocation p
LookupOk(p) ==
    \E i \in 1..Len(calls) :
        calls[i].proc = p /\ calls[i].method = "vmpool.info" /\ calls[i].status

\* the number of machines the invocations have created so far
NumCreated ==
    Len(SelectSeq(calls, LAMBDA c : c.method = "template.instantiate" /\ c.status))

\* the inventory as it was before any invocation changed it
InitialPool == SubSeq(pool, 1, Len(pool) - NumCreated)

\* the machines of the requested name in that inventory
Matches(p) == SelectSeq(InitialPool, LAMBDA e : e.Name = params[p].name)

(***************************************************************************)
(* C1: whenever the inventory listing holds two or more machines of the    *)
(* requested name, the lookup fails with the ambiguity error and the       *)
(* invocation issues no mutating remote call.                              *)
(* The code raises the error for three or more matches only: C1 is         *)
(* violated by an inventory with exactly two, also when the first of the   *)
(* two is in a state the translation table knows.                          *)
(***************************************************************************)
C1_AmbiguousNameFails ==
    \A p \in Procs :
        (/\ Done(p) /\ LookupOk(p) /\ Len(Matches(p)) >= 2
         /\ Matches(p)[1].State \in DOMAIN ONE_STATES_MAP)
            => /\ Failed(p)
               /\ result[p].msg = "Multiples VMs have the same name!"
               /\ MutatingCalls(p) = <<>>

(***************************************************************************)
(* C2: in every no-op case of the transition table (present on an existing *)
(* machine, absent on an absent machine, started on active, stopped on     *)
(* hold or stopped, suspended on suspended, resumed on active) the handler *)
(* returns changed = false with an empty action list and issues no         *)
(* mutating remote call.                                                   *)
(* delete_vm returns a result without any action list for an absent        *)
(* machine.                                                                *)
(***************************************************************************)
NoOpCase(st, vm_state) ==
    \/ st = "present" /\ vm_state # None
    \/ st = "absent" /\ vm_state = None
    \/ st = "started" /\ vm_state = "active"
    \/ st = "stopped" /\ vm_state \in {"hold", "stopped"}
    \/ st = "suspended" /\ vm_state = "suspended"
    \/ st = "resumed" /\ vm_state = "active"

\* the handler of invocation p was called (with vm[p]) and has returned
HandlerReturned(p) == Done(p) /\ vm[p] # Unset /\ raised[p] = None

C2_NoOpReturnsEmptyActions ==
    \A p \in Procs :
        (HandlerReturned(p) /\ NoOpCase(state[p], vm[p].state))
            => /\ {"changed", "actions"} \subseteq DOMAIN result[p]
               /\ result[p].changed = FALSE
               /\ result[p].actions = <<>>
               /\ MutatingCalls(p) = <<>>

(***************************************************************************)
(* C3: an invocation with target present or started and no template_id     *)
(* ends in a failure, and issues no remote call at all, whatever the       *)
(* inventory holds.                                                        *)
(***************************************************************************)
C3_MissingTemplateIdFailsBeforeAnyCall ==
    \A p \in Procs :
        (state[p] \in {"present", "started"} /\ params[p].template_id = <<>>)
            => /\ CallsOf(p) = <<>>
               /\ pc[p] \in {"idle", "core", "main", "done"}
               /\ pc[p] \in {"main", "done"} => Failed(p)
               /\ Done(p) => exit[p] = "fail_json"

C3_Witness ==
    /\ Done(1) /\ state[1] = "started" /\ params[1].template_id = <<>>
    /\ Len(Matches(1)) = 1
    /\ result[1] = [failed |-> TRUE, msg |-> "missing required argument: template_id"]

(***************************************************************************)
(* C4: for every target state, an invocation whose ips list is non-empty   *)
(* and of another length than nics ends in a failure, and issues no remote *)
(* call.                                                                   *)
(***************************************************************************)
C4_IpsLengthMismatchFailsBeforeAnyCall ==
    \A p \in Procs :
        (params[p].ips # <<>> /\ Len(params[p].ips) # Len(params[p].nics))
            => /\ CallsOf(p) = <<>>
               /\ pc[p] \in {"idle", "core", "main", "done"}
               /\ pc[p] \in {"main", "done"} => Failed(p)
               /\ Done(p) => exit[p] = "fail_json"

C4_Witness ==
    /\ Done(1) /\ state[1] = "stopped"
    /\ Len(params[1].ips) = 1 /\ Len(params[1].nics) = 2
    /\ result[1] = [failed |-> TRUE,
                    msg |-> "when defined, 'ips' must have the size as 'nics'"]

(***************************************************************************)
(* Reading a rendered template back: its lines, and the inner lines of     *)
(* every block that opens with the given line, in the order of the text.   *)
(***************************************************************************)
RECURSIVE BlocksIn(_, _, _)
BlocksIn(lines, open, i) ==
    IF i > Len(lines) THEN <<>>
    ELSE IF lines[i] # open THEN BlocksIn(lines, open, i + 1)
    ELSE LET end == CHOOSE j \in (i + 1)..(Len(lines) + 1) :
                        /\ j = Len(lines) + 1 \/ lines[j] = "]"
                        /\ \A k \in (i + 1)..(j - 1) : lines[k] # "]"
         IN  <<SubSeq(lines, i + 1, end - 1)>> \o BlocksIn(lines, open, end + 1)

RenderedDisks(template) == BlocksIn(SplitLines(template), "DISK = [", 1)

ImageCalls(p) == SelectSeq(calls, LAMBDA c : c.proc = p /\ c.method = "image.allocate")

InstantiateCalls(p) ==
    SelectSeq(calls, LAMBDA c : c.proc = p /\ c.method = "template.instantiate")

\* the step of invocation p that issues the instantiate call
InstantiateStep(p) == pc[p] = "instantiate" /\ pc'[p] # "instantiate"

\* At the instantiate call of an invocation that asked for the disks of the
\* sizes requested: one successful image allocation per size so far, the
\* k-th for the image <name>-data<k>, and no instantiate call before this one.
AllocationsBeforeInstantiate(p, requested) ==
    LET imgs == ImageCalls(p)
        inst == calls'[Len(calls')]
    IN  /\ inst.proc = p /\ inst.method = "template.instantiate"
        /\ InstantiateCalls(p) = <<>>
        /\ Len(imgs) = Len(requested)
        /\ \A k \in 1..Len(requested) :
              /\ imgs[k].status
              /\ imgs[k].args[1] =
                    image_template(params[p].name \o "-data" \o ToString(k), requested[k])

\* The disk list of the template passed to instantiate: the base template's
\* disk, then one entry per allocated image id.
RenderedBaseAndImages(p) ==
    LET imgs == ImageCalls(p)
        inst == calls'[Len(calls')]
        rendered == RenderedDisks(inst.args[4])
    IN  /\ Len(rendered) = 1 + Len(imgs)
        /\ rendered[1] = <<"  IMAGE = \"" \o template_infos[p].disk[1][2] \o "\",",
                           "  IMAGE_UNAME = \"" \o template_infos[p].disk[2][2] \o "\"">>
        /\ \A k \in 1..Len(imgs) :
              rendered[k + 1] = <<"  IMAGE_ID = \"" \o ToString(imgs[k].stdout) \o "\"">>

NoInstantiateAfterFailedAllocation ==
    \A p \in Procs :
        (\E k \in 1..Len(ImageCalls(p)) : ~ImageCalls(p)[k].status)
            => InstantiateCalls(p) = <<>>

(***************************************************************************)
(* C5: creating an absent machine with N requested additional disks issues *)
(* exactly N image allocations, the k-th named <name>-data<k>, all         *)
(* successful before the single instantiate call; the disk list rendered   *)
(* into the template passed to instantiate has length 1 + N (the base      *)
(* template's disk, then one entry per allocated image id); if an          *)
(* allocation fails, instantiate is never called.                          *)
(* This is the claim as made: it fails for N = 0.                          *)
(***************************************************************************)
C5_DiskListIsBasePlusRequested ==
    [][/\ \A p \in Procs :
            InstantiateStep(p)
                => /\ AllocationsBeforeInstantiate(p, params[p].disks)
                   /\ RenderedBaseAndImages(p)
       /\ NoInstantiateAfterFailedAllocation']_vars

(***************************************************************************)
(* C5 as amended: the same, but the disk list has length 1 + N only for    *)
(* N >= 1; with no additional disk requested the template passed to        *)
(* instantiate has no disk list at all.                                    *)
(***************************************************************************)
C5_DiskListIsBasePlusRequestedUnlessNone ==
    [][/\ \A p \in Procs :
            InstantiateStep(p)
                => /\ AllocationsBeforeInstantiate(p, params[p].disks)
                   /\ IF params[p].disks # <<>>
                      THEN RenderedBaseAndImages(p)
                      ELSE RenderedDisks(calls'[Len(calls')].args[4]) = <<>>
       /\ NoInstantiateAfterFailedAllocation']_vars

C5_Witness ==
    /\ Len(InstantiateCalls(1)) = 1
    /\ InstantiateCalls(1)[1].status
    /\ Len(ImageCalls(1)) = 2
    /\ Len(RenderedDisks(InstantiateCalls(1)[1].args[4])) = 3

(***************************************************************************)
(* The action list of a result, and the name under which a handler records *)
(* a remote mutation.  No handler has a name for an image allocation.      *)
(***************************************************************************)
ResultActions(p) == IF "actions" \in DOMAIN result[p] THEN result[p].actions ELSE <<>>

ActionNames(st, call) ==
    CASE call.method = "template.instantiate" -> {"created"}
      [] call.method = "image.allocate" -> {}
      [] call.method = "vm.action" ->
            CASE call.args[1] = "terminate" -> {"terminated"}
              [] call.args[1] = "release" -> {"released"}
              [] call.args[1] = "resume" ->
                    IF st = "started" THEN {"started"} ELSE {"resumed"}
              [] call.args[1] = "poweroff" -> {"stopped"}
              [] call.args[1] = "suspend" -> {"suspended"}
              [] call.args[1] = "undeploy" -> {"undeployed"}

\* the action list records exactly these calls, in their order
Records(st, acts, cs) ==
    /\ Len(acts) = Len(cs)
    /\ \A i \in 1..Len(cs) : cs[i].status /\ acts[i] \in ActionNames(st, cs[i])

MachineCalls(p) ==
    SelectSeq(calls, LAMBDA c :
        c.proc = p /\ c.method \in {"template.instantiate", "vm.action"})

(***************************************************************************)
(* C6: in every successful result the action list records, in execution    *)
(* order, every remote mutation the invocation performed (image            *)
(* allocation, instantiate, every generic action call).                    *)
(* This is the claim as made: it fails for a creation with additional      *)
(* disks, whose image allocations the list does not record.                *)
(***************************************************************************)
C6_ActionsRecordEveryMutation ==
    \A p \in Procs :
        (Done(p) /\ ~Failed(p)) => Records(state[p], ResultActions(p), MutatingCalls(p))

(***************************************************************************)
(* C6 as amended: in every successful result the action list records, in   *)
(* execution order, the instantiate call and every generic action call the *)
(* invocation performed; image allocations are not recorded.               *)
(***************************************************************************)
C6_ActionsRecordMachineMutations ==
    \A p \in Procs :
        (Done(p) /\ ~Failed(p)) => Records(state[p], ResultActions(p), MachineCalls(p))

C6_Witness ==
    /\ Done(1) /\ ~Failed(1)
    /\ Len(ImageCalls(1)) = 2
    /\ result[1].actions = <<"created", "released">>

(***************************************************************************)
(* C7: with target started and the machine absent, the invocation          *)
(* instantiates the machine and then issues exactly one release action,    *)
(* addressed to the id the instantiate call returned (never to -1, never a *)
(* resume); the result is changed = true, the new id, and the action list  *)
(* <<"created", "released">>.                                              *)
(***************************************************************************)
Absent(p) == LookupOk(p) /\ Matches(p) = <<>>

C7_StartAbsentCreatesThenReleases ==
    \A p \in Procs :
        (state[p] = "started" /\ Absent(p))
            => LET m == MachineCalls(p) IN
               /\ Len(m) <= 2
               /\ m # <<>> => m[1].method = "template.instantiate"
               /\ Len(m) = 2 => /\ m[1].status
                                /\ m[2].method = "vm.action"
                                /\ m[2].args = <<"release", m[1].stdout>>
                                /\ m[1].stdout # -1
               /\ (Done(p) /\ ~Failed(p))
                     => /\ Len(m) = 2
                        /\ result[p] = [changed |-> TRUE, vm_id |-> m[1].stdout,
                                        actions |-> <<"created", "released">>]
                        /\ exit[p] = "exit_json"

C7_Witness ==
    /\ Done(1) /\ state[1] = "started" /\ Absent(1) /\ ~Failed(1)
    /\ Len(MachineCalls(1)) = 2
    /\ MachineCalls(1)[2].args[1] = "release"

(***************************************************************************)
(* C8: with target suspended, an active machine gets exactly one suspend   *)
(* action and the result is changed = true with the action list            *)
(* <<"suspended">>; for a machine in any state other than active and       *)
(* suspended the result is a failure and no remote action is issued.       *)
(***************************************************************************)
C8_SuspendOnlyActive ==
    \A p \in Procs :
        (state[p] = "suspended" /\ vm[p] # Unset /\ pc[p] \in {"main", "done"})
            => /\ vm[p].state = "active"
                  => /\ Len(MutatingCalls(p)) = 1
                     /\ MutatingCalls(p)[1].method = "vm.action"
                     /\ MutatingCalls(p)[1].args = <<"suspend", vm[p].id>>
                     /\ MutatingCalls(p)[1].status
                           => result[p] = [changed |-> TRUE, vm_id |-> vm[p].id,
                                           actions |-> <<"suspended">>]
               /\ vm[p].state \notin {None, "active", "suspended"}
                  => /\ Failed(p)
                     /\ Len(CallsOf(p)) = 1
                     /\ CallsOf(p)[1].method = "vmpool.info"

C8_Witness ==
    /\ Done(1) /\ state[1] = "suspended"
    /\ Len(Matches(1)) = 1 /\ Matches(1)[1].State = "3"
    /\ result[1] = [changed |-> TRUE, vm_id |-> 1, actions |-> <<"suspended">>]

(***************************************************************************)
(* C9: with target retrieve the invocation issues no mutating remote call  *)
(* and never returns changed = true, whatever the machine's state; when    *)
(* the machine is absent it returns a failure.                             *)
(***************************************************************************)
C9_RetrieveNeverChanges ==
    \A p \in Procs :
        state[p] = "retrieve"
            => /\ MutatingCalls(p) = <<>>
               /\ (pc[p] \in {"main", "done"} /\ "changed" \in DOMAIN result[p])
                     => result[p].changed = FALSE
               /\ (Done(p) /\ Absent(p))
                     => /\ result[p] = [failed |-> TRUE, msg |-> NOT_EXISTS_ERR]
                        /\ exit[p] = "fail_json"

C9_Witness ==
    /\ Done(1) /\ state[1] = "retrieve"
    /\ Len(Matches(1)) = 1 /\ Matches(1)[1].State = "8"
    /\ {"changed", "conf"} \subseteq DOMAIN result[1]
    /\ result[1].conf.state = "poweroff"

(***************************************************************************)
(* C10: with target stopped, suspended, resumed or undeployed and the      *)
(* machine absent, the invocation returns the failure 'does not exist' and *)
(* issues no remote call but the inventory lookup; it never creates the    *)
(* machine.                                                                *)
(***************************************************************************)
C10_AbsentMachineIsNotFound ==
    \A p \in Procs :
        (state[p] \in {"stopped", "suspended", "resumed", "undeployed"} /\ Absent(p))
            => /\ Len(CallsOf(p)) = 1
               /\ CallsOf(p)[1].method = "vmpool.info"
               /\ pc[p] \in {"main", "done"}
                     => result[p] = [failed |-> TRUE, msg |-> NOT_EXISTS_ERR]
               /\ Done(p) => exit[p] = "fail_json"

C10_Witness ==
    /\ Done(1) /\ state[1] = "undeployed" /\ Absent(1)
    /\ result[1].msg = NOT_EXISTS_ERR

(***************************************************************************)
(* C11: get_vm_info returns id = -1 and state = None when no machine of    *)
(* the inventory has the requested name; with exactly one match it returns *)
(* that entry's id as an integer and the symbolic state its wire state     *)
(* code translates to.  (vm[p] is what get_vm_info returned for as long as *)
(* invocation p is at the entry of its handler.)                           *)
(***************************************************************************)
C11_LookupReturnsIdAndState ==
    \A p \in Procs :
        pc[p] = Handler(state[p])
            => LET ms == Matches(p) IN
               /\ ms = <<>>
                     => vm[p] = [name |-> params[p].name, id |-> -1, state |-> None]
               /\ Len(ms) = 1
                     => /\ vm[p].name = params[p].name
                        /\ ToString(vm[p].id) = ms[1].Id
                        /\ ms[1].State \in DOMAIN ONE_STATES_MAP
                        /\ vm[p].state = ONE_STATES_MAP[ms[1].State]

C11_Witness ==
    /\ pc[1] = "stop_vm"
    /\ Len(Matches(1)) = 1 /\ Matches(1)[1].State = "8"
    /\ vm[1] = [name |-> "web", id |-> 1, state |-> "poweroff"]

(***************************************************************************)
(* C12: every invocation ends as exactly one of a failure (failed = true   *)
(* with a message), a change (changed = true) or a successful no-op        *)
(* (changed = false); no result is both failed and changed, and a result   *)
(* with changed = false and no failure is returned only when no mutating   *)
(* remote call was issued.                                                 *)
(***************************************************************************)
C12_OneOfThreeOutcomes ==
    \A p \in Procs :
        Done(p)
            => /\ ("failed" \in DOMAIN result[p]) # ("changed" \in DOMAIN result[p])
               /\ Failed(p) => /\ result[p].failed = TRUE
                               /\ "msg" \in DOMAIN result[p]
                               /\ exit[p] = "fail_json"
               /\ ~Failed(p) => /\ result[p].changed \in BOOLEAN
                                /\ exit[p] = "exit_json"
               /\ (~Failed(p) /\ result[p].changed = FALSE) => MutatingCalls(p) = <<>>

C12_Witness ==
    /\ Done(1) /\ state[1] = "stopped"
    /\ result[1] = [changed |-> FALSE, vm_id |-> 1, actions |-> <<>>]
    /\ Len(CallsOf(1)) = 1
    /\ exit[1] = "exit_json"

(***************************************************************************)
(* The blocks of a rendered template, read off the list of its lines.      *)
(***************************************************************************)
BlockOpenings == {"NIC = [", "GRAPHICS = [", "CONTEXT = [", "DISK = ["}

EndsWithComma(line) == Len(line) > 0 /\ SubSeq(line, Len(line), Len(line)) = ","

\* the last inner line carries no separator, every earlier one does
WellSeparated(inner) ==
    /\ inner # <<>>
    /\ ~EndsWithComma(inner[Len(inner)])
    /\ \A k \in 1..(Len(inner) - 1) : EndsWithComma(inner[k])

RECURSIVE LinesOfBlocks(_)
LinesOfBlocks(blocks) ==
    IF blocks = <<>> THEN 0 ELSE 2 + Len(blocks[1]) + LinesOfBlocks(Tail(blocks))

\* The template made of prm: every block the parameters ask for is there
\* with its opening line, every line belongs to the three scalar lines or to
\* a block, and every block is well separated.
WellFormedTemplate(prm) ==
    LET lines == gen_template_lines(prm)
        nic == BlocksIn(lines, "NIC = [", 1)
        graphics == BlocksIn(lines, "GRAPHICS = [", 1)
        context == BlocksIn(lines, "CONTEXT = [", 1)
        disk == BlocksIn(lines, "DISK = [", 1)
    IN  /\ Len(nic) = Len(prm.nics)
        /\ Len(graphics) = (IF prm.graphics # <<>> THEN 1 ELSE 0)
        /\ Len(context) = (IF prm.ssh_keys # <<>> THEN 1 ELSE 0)
        /\ Len(disk) = Len(prm.disks)
        /\ Len(lines) = 3 + LinesOfBlocks(nic \o graphics \o context \o disk)
        /\ \A i \in 1..Len(nic) : WellSeparated(nic[i])
        /\ \A i \in 1..Len(graphics) : WellSeparated(graphics[i])
        /\ \A i \in 1..Len(context) : WellSeparated(context[i])
        /\ \A i \in 1..Len(disk) : WellSeparated(disk[i])

(***************************************************************************)
(* C13: in every bracketed block of gen_template's output (NIC, GRAPHICS,  *)
(* CONTEXT, DISK) the last inner assignment line does not end with the     *)
(* separator ',', every earlier one does, and the block's opening line is  *)
(* intact; also for a block of one field.  (Once invocation p has issued   *)
(* its instantiate call, params[p] is what gen_template was given.)        *)
(***************************************************************************)
C13_BlocksAreWellSeparated ==
    \A p \in Procs :
        InstantiateCalls(p) # <<>>
            => /\ InstantiateCalls(p)[1].args[4] =
                     Join("\n", gen_template_lines(params[p]))
               /\ WellFormedTemplate(params[p])

C13_Witness ==
    /\ InstantiateCalls(1) # <<>>
    /\ params[1].nics = <<1>> /\ params[1].ips = <<>>
    /\ Len(params[1].graphics) = 1
    /\ Len(params[1].disks) = 2
    /\ BlocksIn(gen_template_lines(params[1]), "DISK = [", 1)[2] = <<"  IMAGE_ID = \"0\"">>
    /\ BlocksIn(gen_template_lines(params[1]), "NIC = [", 1) = << <<"  NETWORK_ID = \"1\"">> >>

(***************************************************************************)
(* C14: when the inventory reports the named machine with a wire state code *)
(* outside the translation table (code 7), the invocation issues no        *)
(* mutating remote call and ends with a structured failure result, for     *)
(* every target state.  (The lookup raises KeyError, which core lets       *)
(* through and main turns into fail_json.)                                 *)
(***************************************************************************)
C14_UnknownStateCodeFails ==
    \A p \in Procs :
        (LookupOk(p) /\ Matches(p) # <<>> /\ Matches(p)[1].State = "7")
            => /\ MutatingCalls(p) = <<>>
               /\ Len(CallsOf(p)) = 1
               /\ Done(p) => /\ Failed(p)
                             /\ result[p].failed = TRUE
                             /\ "msg" \in DOMAIN result[p]
                             /\ exit[p] = "fail_json"
               /\ (Done(p) /\ Len(Matches(p)) <= 2) => raised[p] = "KeyError"

C14_Witness ==
    /\ Done(1) /\ state[1] = "absent"
    /\ Len(Matches(1)) = 1 /\ Matches(1)[1].State = "7"
    /\ raised[1] = "KeyError" /\ Failed(1) /\ exit[1] = "fail_json"
    /\ MutatingCalls(1) = <<>>

(***************************************************************************)
(* C15: whenever a remote call of an invocation reports failure, it is the *)
(* invocation's last call (nothing follows it: no release after a failed   *)
(* instantiate, no allocation or instantiate after a failed allocation, no *)
(* rollback of what was done before), core returns at once, and the        *)
(* invocation ends with a failure result carrying the control plane's      *)
(* error code and message.                                                 *)
(***************************************************************************)
C15_FailedCallAbortsInvocation ==
    \A p \in Procs :
        LET cs == CallsOf(p) IN
        \A i \in 1..Len(cs) :
            ~cs[i].status
                => /\ i = Len(cs)
                   /\ pc[p] \in {"main", "done"}
                   /\ raised[p] = None
                   /\ \E e \in RemoteErrors :
                         /\ e.stdout = cs[i].stdout
                         /\ result[p] = [failed |-> TRUE,
                                         msg |-> ToString(e.errcode) \o ": " \o e.stdout]
                   /\ Done(p) => exit[p] = "fail_json"

C15_Witness ==
    /\ Done(1) /\ state[1] = "started"
    /\ Len(CallsOf(1)) = 4
    /\ CallsOf(1)[3].method = "image.allocate" /\ CallsOf(1)[3].status
    /\ CallsOf(1)[4].method = "template.instantiate" /\ ~CallsOf(1)[4].status
    /\ result[1] = [failed |-> TRUE, msg |-> "2048: [one] not authorized"]

(***************************************************************************)
(* C16: with target started and an existing machine, a machine on hold gets *)
(* exactly one release, an active machine gets no action, and a machine in *)
(* any other lifecycle state gets exactly one resume.  In the non-active   *)
(* cases the one vm.action call is addressed to the looked-up id and, when *)
(* the control plane accepts it, the result is changed = true.             *)
(***************************************************************************)
C16_StartExistingMachine ==
    \A p \in Procs :
        (/\ Done(p) /\ state[p] = "started" /\ LookupOk(p)
         /\ Len(Matches(p)) \in 1..2
         /\ Matches(p)[1].State \in DOMAIN ONE_STATES_MAP)
            => LET m == Matches(p)[1]
                   st == ONE_STATES_MAP[m.State]
                   mc == MutatingCalls(p)
               IN  IF st = "active"
                   THEN /\ mc = <<>>
                        /\ result[p] = [changed |-> FALSE, vm_id |-> vm[p].id,
                                        actions |-> <<>>]
                   ELSE /\ Len(mc) = 1
                        /\ Len(CallsOf(p)) = 2
                        /\ mc[1].method = "vm.action"
                        /\ mc[1].args[1] = (IF st = "hold" THEN "release" ELSE "resume")
                        /\ ToString(mc[1].args[2]) = m.Id
                        /\ mc[1].status
                              => result[p] =
                                    [changed |-> TRUE, vm_id |-> mc[1].args[2],
                                     actions |-> IF st = "hold" THEN <<"released">>
                                                 ELSE <<"started">>]

C16_Witness ==
    /\ Done(1) /\ state[1] = "started"
    /\ Len(Matches(1)) = 1 /\ Matches(1)[1].State = "4"
    /\ Len(MutatingCalls(1)) = 1
    /\ MutatingCalls(1)[1].args = <<"resume", 1>>
    /\ result[1] = [changed |-> TRUE, vm_id |-> 1, actions |-> <<"started">>]

(***************************************************************************)
(* C17: with target undeployed and an existing machine the no-op branch is *)
(* never taken: in every lifecycle state the translator produces,          *)
(* undeployed included, the handler issues exactly one undeploy action to  *)
(* the looked-up id and, when the control plane accepts it, returns        *)
(* changed = true with the action list ["undeployed"].                     *)
(***************************************************************************)
C17_UndeployAlwaysActs ==
    \A p \in Procs :
        (/\ Done(p) /\ state[p] = "undeployed" /\ LookupOk(p)
         /\ Len(Matches(p)) \in 1..2
         /\ Matches(p)[1].State \in DOMAIN ONE_STATES_MAP)
            => LET mc == MutatingCalls(p) IN
               /\ Len(mc) = 1
               /\ Len(CallsOf(p)) = 2
               /\ mc[1].method = "vm.action"
               /\ mc[1].args[1] = "undeploy"
               /\ ToString(mc[1].args[2]) = Matches(p)[1].Id
               /\ mc[1].status
                     => result[p] = [changed |-> TRUE, vm_id |-> mc[1].args[2],
                                     actions |-> <<"undeployed">>]

C17_Witness ==
    /\ Done(1) /\ state[1] = "undeployed"
    /\ Len(Matches(1)) = 1 /\ Matches(1)[1].State = "9"
    /\ LookupOk(1) /\ vm[1].state = "undeployed"
    /\ Len(MutatingCalls(1)) = 1
    /\ MutatingCalls(1)[1].args = <<"undeploy", 1>>
    /\ result[1] = [changed |-> TRUE, vm_id |-> 1, actions |-> <<"undeployed">>]

(***************************************************************************)
(* C18: with target resumed, a suspended machine gets exactly one resume   *)
(* action and, when the control plane accepts it, the result is            *)
(* changed = true with the action list ["resumed"]; an active machine is a *)
(* no-op; an existing machine in any other state yields a failure and no   *)
(* remote action.                                                          *)
(***************************************************************************)
C18_ResumeOnlySuspended ==
    \A p \in Procs :
        (/\ Done(p) /\ state[p] = "resumed" /\ LookupOk(p)
         /\ Len(Matches(p)) \in 1..2
         /\ Matches(p)[1].State \in DOMAIN ONE_STATES_MAP)
            => LET st == ONE_STATES_MAP[Matches(p)[1].State]
                   mc == MutatingCalls(p)
               IN  CASE st = "suspended" ->
                          /\ Len(mc) = 1
                          /\ Len(CallsOf(p)) = 2
                          /\ mc[1].method = "vm.action"
                          /\ mc[1].args[1] = "resume"
                          /\ ToString(mc[1].args[2]) = Matches(p)[1].Id
                          /\ mc[1].status
                                => result[p] = [changed |-> TRUE, vm_id |-> mc[1].args[2],
                                                actions |-> <<"resumed">>]
                     [] st = "active" ->
                          /\ Len(CallsOf(p)) = 1
                          /\ result[p] = [changed |-> FALSE, vm_id |-> vm[p].id,
                                          actions |-> <<>>]
                     [] OTHER ->
                          /\ Len(CallsOf(p)) = 1
                          /\ Failed(p)
                          /\ result[p].msg =
                                "only a suspended virtual machine can be resumed!"
                          /\ exit[p] = "fail_json"

C18_Witness ==
    /\ Done(1) /\ state[1] = "resumed"
    /\ Len(Matches(1)) = 1 /\ Matches(1)[1].State = "4"
    /\ Len(CallsOf(1)) = 1
    /\ result[1] = [failed |-> TRUE,
                    msg |-> "only a suspended virtual machine can be resumed!"]

(***************************************************************************)
(* C19: two invocations with target present or started, run at once        *)
(* against the same absent name, can both complete their inventory lookup  *)
(* before either instantiates.  Nothing then prevents the duplicate: when  *)
(* both lookups found the name absent and both invocations end without     *)
(* failure, both have issued an instantiate call, both report changed =    *)
(* true with different ids, and the inventory holds two machines of the    *)
(* name.                                                                   *)
(***************************************************************************)
LookupAbsent(p) ==
    \E i \in 1..Len(calls) :
        /\ calls[i].proc = p /\ calls[i].method = "vmpool.info" /\ calls[i].status
        /\ SelectSeq(calls[i].stdout, LAMBDA e : e.Name = params[p].name) = <<>>

Named(name) == SelectSeq(pool, LAMBDA e : e.Name = name)

C19_ConcurrentCreatesDuplicate ==
    (\A p \in Procs : LookupAbsent(p) /\ Done(p) /\ ~Failed(p))
        => /\ \A p \in Procs :
                /\ Len(InstantiateCalls(p)) = 1
                /\ InstantiateCalls(p)[1].status
                /\ result[p].changed = TRUE
                /\ result[p].vm_id = InstantiateCalls(p)[1].stdout
           /\ result[1].vm_id # result[2].vm_id
           /\ Len(Named(params[1].name)) = 2
           /\ \A i \in 1..2 :
                ToString(result[i].vm_id) \in
                    {Named(params[1].name)[k].Id : k \in 1..2}

C19_Witness ==
    /\ \A p \in Procs : LookupAbsent(p) /\ Done(p) /\ ~Failed(p)
    /\ state[1] = "present" /\ state[2] = "started"
    /\ calls[1].method = "vmpool.info" /\ calls[2].method = "vmpool.info"
    /\ Len(Named("web")) = 2
    /\ result[1] = [changed |-> TRUE, vm_id |-> 1, actions |-> <<"created">>]
    /\ result[2] = [changed |-> TRUE, vm_id |-> 2, actions |-> <<"created", "released">>]

(***************************************************************************)
(* C20: reconciliation is idempotent across sequential invocations: for    *)
(* every target state and every starting state from which a first          *)
(* invocation succeeds, a second invocation with the same target, run      *)
(* after the control plane has applied the first one's actions, issues no  *)
(* mutating remote call and returns changed = false.  (The second          *)
(* invocation's inventory listing is taken to succeed.)                    *)
(***************************************************************************)
C20_SecondRunIsNoOp ==
    (/\ Done(2) /\ state[2] # "retrieve"
     /\ \E i \in 1..Len(calls) :
           calls[i].proc = 2 /\ calls[i].method = "vmpool.info" /\ calls[i].status)
        => /\ MutatingCalls(2) = <<>>
           /\ ~Failed(2)
           /\ result[2].changed = FALSE

====
